---------------------------- MODULE Spec2Model ----------------------------
(***************************************************************************)
(* Model of the createmodelcomponent management command of django-antd.    *)
(*                                                                         *)
(* Two variants of the command exist in the repository:                    *)
(*   variant 1  src/django_antd/management/commands/createmodelcomponent.py*)
(*              (app_label argument, one model, --excluded-fields,         *)
(*               _ANT_MODEL_FIELD_LABELS)                                  *)
(*   variant 2  src/django_antd/django_antd/management/commands/...        *)
(*              (fixed app, a list of models, a fixed exclude list,        *)
(*               ANT_MODEL_FIELD_NAMES and ANT_MODEL_FIELD_LABELS)         *)
(*                                                                         *)
(* Texts the code computes on (field names, model names, verbose names,    *)
(* choice titles, generated markup) are sequences of one-character         *)
(* strings; literal pieces of generated markup are single tokens.  Python  *)
(* None is the empty sequence <<>> and a present value v is <<v>>.         *)
(***************************************************************************)
EXTENDS Naturals, Sequences, FiniteSets, TLC

VARIABLES
    variant,   \* which of the two command variants is installed (1 or 2)
    attrs,     \* per model: the optional class attributes the command reads
    target,    \* what the invocations of a behaviour are asked to generate
    dirs,      \* the output directories that exist
    files,     \* the files that exist: path -> content
    runs,      \* number of invocations so far
    prev,      \* the filesystem as it was when the last invocation started
    last,      \* the last invocation: options, outcome, console output
    before,    \* the invocation before the last: options and outcome
    job,       \* a call of one of the command's pure methods: its arguments
    out        \* ... and its result

vars == <<variant, attrs, target, dirs, files, runs, prev, last, before, job, out>>

-----------------------------------------------------------------------------
(* Bounds of the model                                                     *)

MaxRuns == 2        \* invocations in one behaviour
MaxModels == 2      \* model names given to one invocation of variant 2
MaxNameLen == 3     \* length of the enumerated field names
MaxModelNameLen == 2 \* length of the enumerated model names
MaxChoices == 2     \* choices of an enumerated choice field
MaxTitleLen == 2    \* length of an enumerated choice title
MaxFields == 2      \* fields of an enumerated model
MaxKeys == 2        \* entries of an enumerated label map or allow-list

-----------------------------------------------------------------------------
(* Python values                                                           *)

None == <<>>
Some(v) == <<v>>
IsNone(o) == o = <<>>
Val(o) == o[1]

\* Python truthiness of an optional number / an optional or plain collection.
FalsyNum(o) == IsNone(o) \/ Val(o) = 0
FalsySeq(s) == s = <<>>

Lowers == <<"a","b","c","d","e","f","g","h","i","j","k","l","m",
            "n","o","p","q","r","s","t","u","v","w","x","y","z">>
Uppers == <<"A","B","C","D","E","F","G","H","I","J","K","L","M",
            "N","O","P","Q","R","S","T","U","V","W","X","Y","Z">>

IsLower(c) == \E i \in 1..Len(Lowers) : Lowers[i] = c
IsUpper(c) == \E i \in 1..Len(Uppers) : Uppers[i] = c
IsCased(c) == IsLower(c) \/ IsUpper(c)
ToUpper(c) == IF IsLower(c) THEN Uppers[CHOOSE i \in 1..Len(Lowers) : Lowers[i] = c] ELSE c
ToLower(c) == IF IsUpper(c) THEN Lowers[CHOOSE i \in 1..Len(Uppers) : Uppers[i] = c] ELSE c

\* str.lower()
Py_lower(s) == [i \in 1..Len(s) |-> ToLower(s[i])]

\* str.replace(old, new) for a one-character old; new is a text (maybe empty)
RECURSIVE Py_replace(_, _, _)
Py_replace(s, old, new) ==
    IF s = <<>> THEN <<>>
    ELSE (IF Head(s) = old THEN new ELSE <<Head(s)>>) \o Py_replace(Tail(s), old, new)

\* str.title(): a cased character is upper-cased when the character before it
\* is not cased (or it is the first) and lower-cased when it follows a cased one;
\* an uncased character (digit, underscore, space) is kept and ends the word.
RECURSIVE TitleFrom(_, _)
TitleFrom(s, previous_is_cased) ==
    IF s = <<>> THEN <<>>
    ELSE LET c == Head(s)
         IN  IF IsCased(c)
             THEN <<IF previous_is_cased THEN ToLower(c) ELSE ToUpper(c)>>
                      \o TitleFrom(Tail(s), TRUE)
             ELSE <<c>> \o TitleFrom(Tail(s), FALSE)
Py_title(s) == TitleFrom(s, FALSE)

\* the `in` operator on texts
Py_in(sub, s) ==
    \E i \in 0..Len(s) :
        i + Len(sub) <= Len(s) /\ SubSeq(s, i + 1, i + Len(sub)) = sub

\* "\n".join(parts) / "".join(parts)
RECURSIVE Py_join(_, _)
Py_join(sep, parts) ==
    IF parts = <<>> THEN <<>>
    ELSE IF Len(parts) = 1 THEN parts[1]
    ELSE parts[1] \o sep \o Py_join(sep, Tail(parts))

\* django.utils.html.escape
EscapeChar(c) ==
    CASE c = "&"  -> <<"&","a","m","p",";">>
      [] c = "<"  -> <<"&","l","t",";">>
      [] c = ">"  -> <<"&","g","t",";">>
      [] c = "\"" -> <<"&","q","u","o","t",";">>
      [] c = "'"  -> <<"&","#","x","2","7",";">>
      [] OTHER    -> <<c>>
RECURSIVE escape(_)
escape(t) == IF t = <<>> THEN <<>> ELSE EscapeChar(Head(t)) \o escape(Tail(t))

Range(s) == {s[i] : i \in 1..Len(s)}
SeqsUpTo(S, n) == UNION {[1..k -> S] : k \in 0..n}
DistinctSeqs(S, n) == {s \in SeqsUpTo(S, n) : \A i, j \in 1..Len(s) : i # j => s[i] # s[j]}
Orderings(S) == {s \in [1..Cardinality(S) -> S] : Range(s) = S}

-----------------------------------------------------------------------------
(* Form field classes (django.forms) and their base classes                *)

Bases ==
    [ Field                    |-> None,
      CharField                |-> Some("Field"),
      EmailField               |-> Some("CharField"),
      IntegerField             |-> Some("Field"),
      FloatField               |-> Some("IntegerField"),
      DecimalField             |-> Some("IntegerField"),
      BooleanField             |-> Some("Field"),
      DateField                |-> Some("Field"),
      ChoiceField              |-> Some("Field"),
      TypedChoiceField         |-> Some("ChoiceField"),
      MultipleChoiceField      |-> Some("ChoiceField"),
      TypedMultipleChoiceField |-> Some("MultipleChoiceField"),
      FilePathField            |-> Some("ChoiceField"),
      ModelChoiceField         |-> Some("ChoiceField"),
      ModelMultipleChoiceField |-> Some("ModelChoiceField") ]

FieldClasses == DOMAIN Bases \ {"Field"}

RECURSIVE IsSubclass(_, _)
IsSubclass(cls, base) ==
    \/ cls = base
    \/ /\ ~IsNone(Bases[cls])
       /\ IsSubclass(Val(Bases[cls]), base)

isinstance(field, base) == IsSubclass(field.cls, base)

-----------------------------------------------------------------------------
(* The command's tables and pure methods                                   *)

\* Select and SelectMultiple are widget classes: no field has them as its class.
FIELD_MAP ==
    [ IntegerField             |-> <<"number", "InputNumber">>,
      DecimalField             |-> <<"decimal", "InputNumber">>,
      ModelChoiceField         |-> <<"select", "Select">>,
      ModelMultipleChoiceField |-> <<"multi-select", "Select">>,
      ChoiceField              |-> <<"select", "Select">>,
      TypedChoiceField         |-> <<"select", "Select">>,
      Select                   |-> <<"select", "Select">>,
      MultipleChoiceField      |-> <<"multi-select", "Select">>,
      SelectMultiple           |-> <<"multi-select", "Select">>,
      CharField                |-> <<"text", "Input">>,
      BooleanField             |-> <<"checkbox", "Checkbox">> ]

FIELD_IMPORT_MAP ==
    [ Select      |-> <<"Select", "antd/lib/select">>,
      Input       |-> <<"Input", "antd/lib/input">>,
      InputNumber |-> <<"InputNumber", "antd/lib/input-number">>,
      Checkbox    |-> <<"Checkbox", "antd/lib/checkbox">> ]

_get_title_text(title) == escape(title)

\* a faulty variant: the table is consulted before the no-max-length test
Mut_get_field_type(field) ==
    IF field.cls \in DOMAIN FIELD_MAP THEN FIELD_MAP[field.cls]
    ELSE IF isinstance(field, "CharField") /\ FalsyNum(field.max_length)
         THEN <<"textarea", "TextArea">>
         ELSE <<"text", "Input">>

_get_field_type(field) ==
    IF isinstance(field, "CharField") /\ FalsyNum(field.max_length)
    THEN <<"textarea", "TextArea">>
    ELSE IF field.cls \in DOMAIN FIELD_MAP THEN FIELD_MAP[field.cls]
         ELSE <<"text", "Input">>

OptionLine(value, title) ==
    <<"        <Option value=\"", value, "\">">> \o _get_title_text(title) \o <<"</Option>">>

\* a faulty variant: the first choice is skipped and titles are written unescaped
Mut_get_input(field, field_name, use_placeholder) ==
    LET field_input == _get_field_type(field)[2]
    IN  IF isinstance(field, "ChoiceField")
        THEN <<"<", field_input, " onBlur={onBlur} {...inputProps}", ">", "\n">>
                 \o Py_join(<<"\n">>,
                        [i \in 1..(Len(field.choices) - 1) |->
                            <<"        <Option value=\"", field.choices[i + 1][1], "\">">>
                                \o field.choices[i + 1][2] \o <<"</Option>">>])
                 \o <<"\n", "      </", field_input, ">">>
        ELSE <<"<", field_input, " onBlur={onBlur} {...inputProps}", " />">>

_get_input(field, field_name, use_placeholder) ==
    LET t == _get_field_type(field)
        field_type == t[1]
        field_input == t[2]
        start0 == <<field_input, " onBlur={onBlur} {...inputProps}">>
        start1 == start0 \o
                  (IF field_type = "decimal" THEN <<" step={0.1}">>
                   ELSE IF field_type = "multi-select" THEN <<" mode=\"multiple\"">>
                   ELSE <<>>)
        field_tag_start ==
            start1 \o
            (IF use_placeholder
             THEN <<" placeholder=\"Choose the ">>
                      \o Py_title(Py_replace(field_name, "_", <<" ">>)) \o <<"\"">>
             ELSE <<>>)
    IN  IF isinstance(field, "ChoiceField")
        THEN LET choices == IF isinstance(field, "ModelChoiceField")
                            THEN [i \in 1..Len(field.choices) |-> field.choices[i]]
                            ELSE field.choices
                 options == Py_join(<<"\n">>,
                                [i \in 1..Len(choices) |->
                                    OptionLine(choices[i][1], choices[i][2])])
                 field_tag_end == <<"      </", field_input, ">">>
             IN  <<"<">> \o field_tag_start \o <<">", "\n">> \o options
                     \o <<"\n">> \o field_tag_end
        ELSE <<"<">> \o field_tag_start \o <<" />">>

\* a faulty variant: the model name is looked for case-sensitively
Mut_ComponentName(field_name, model_name) ==
    LET component_name == Py_replace(Py_title(Py_replace(field_name, "_", <<" ">>)), " ", <<>>)
    IN  IF ~Py_in(model_name, component_name)
        THEN model_name \o component_name
        ELSE component_name

ComponentName(field_name, model_name) ==
    LET component_name == Py_replace(Py_title(Py_replace(field_name, "_", <<" ">>)), " ", <<>>)
    IN  IF ~Py_in(Py_lower(model_name), Py_lower(component_name))
        THEN model_name \o component_name
        ELSE component_name

get_field_context(field_name, field, model_name, use_placeholder) ==
    [ name       |-> ComponentName(field_name, model_name),
      field_name |-> field_name,
      initial    |-> field.initial,
      help_text  |-> field.help_text,
      input      |-> _get_input(field, field_name, use_placeholder),
      required   |-> field.required,
      message    |-> IF IsNone(field.error_required)
                     THEN <<"Please enter a valid value for: \"", field.label, "\"">>
                     ELSE <<Val(field.error_required)>>,
      label      |-> field.label,
      field      |-> field ]

get_import(field) ==
    LET field_input == _get_field_type(field)[2]
    IN  IF field_input \in DOMAIN FIELD_IMPORT_MAP
        THEN Some(FIELD_IMPORT_MAP[field_input])
        ELSE None

get_sub_imports(field) ==
    LET field_type == _get_field_type(field)[1]
    IN  IF field_type \in {"select", "multi-select"} THEN Some(<<"Option", "Select">>)
        ELSE IF field_type \in {"textarea"} THEN Some(<<"TextArea", "Input">>)
        ELSE None

-----------------------------------------------------------------------------
(* django.forms.fields_for_model, as the command calls it                  *)

\* dict.get on the label map, a sequence of <<field name, label>> in insertion order
Keys(pairs) == [i \in 1..Len(pairs) |-> pairs[i][1]]
Lookup(pairs, k) == (CHOOSE i \in 1..Len(pairs) : pairs[i][1] = k)

\* f.formfield(**kwargs): the form field of a model field, with the label of the
\* label map when the map names the field
formfield(f, labels) ==
    IF IsNone(f.formfield) THEN None
    ELSE IF ~IsNone(labels) /\ ~FalsySeq(Val(labels)) /\ f.name \in Range(Keys(Val(labels)))
         THEN Some([Val(f.formfield) EXCEPT
                       !.label = Val(labels)[Lookup(Val(labels), f.name)][2]])
         ELSE f.formfield

\* The result is the ordered mapping name -> form field, as a sequence of pairs.
\* model_fields come in the framework's default order; fields, exclude and labels
\* are optional (None when not given).
fields_for_model(model_fields, fields, exclude, labels) ==
    LET Kept(f) == /\ f.editable
                   /\ (IsNone(fields) \/ f.name \in Range(Val(fields)))
                   /\ ~(~IsNone(exclude) /\ ~FalsySeq(Val(exclude))
                           /\ f.name \in Range(Val(exclude)))
        kept == SelectSeq(model_fields, Kept)
        HasForm(f) == ~IsNone(f.formfield)
        NoForm(f) == IsNone(f.formfield)
        made == SelectSeq(kept, HasForm)
        field_dict == [i \in 1..Len(made) |-> <<made[i].name, Val(formfield(made[i], labels))>>]
        ignored == {f.name : f \in Range(SelectSeq(kept, NoForm))}
        Listed(n) == /\ (IsNone(exclude) \/ FalsySeq(Val(exclude)) \/ n \notin Range(Val(exclude)))
                     /\ n \notin ignored
    IN  IF ~IsNone(fields) /\ ~FalsySeq(Val(fields))
        THEN LET names == SelectSeq(Val(fields), Listed)
             IN  [i \in 1..Len(names) |->
                    <<names[i], field_dict[Lookup(field_dict, names[i])][2]>>]
        ELSE field_dict

-----------------------------------------------------------------------------
(* Command._get_context                                                    *)

\* variant 2: Command.exclude_fields
exclude_fields ==
    << <<"c","l","i","e","n","t">>,
       <<"c","r","e","a","t","e","d","_","b","y">>,
       <<"u","p","d","a","t","e","d","_","b","y">>,
       <<"c","r","e","a","t","e","d","_","a","t">>,
       <<"u","p","d","a","t","e","d","_","a","t">> >>

\* The form fields the command asks the framework for.  Variant 1 passes the keys
\* of _ANT_MODEL_FIELD_LABELS, which defaults to an empty dict, as the field list;
\* variant 2 passes ANT_MODEL_FIELD_NAMES and ANT_MODEL_FIELD_LABELS, both None
\* by default, and its fixed exclude list.
ModelFields(v, model, excluded_fields) ==
    IF v = 1
    THEN LET ant_field_labels == IF IsNone(model.field_labels) THEN <<>>
                                 ELSE Val(model.field_labels)
         IN  fields_for_model(model.fields, Some(Keys(ant_field_labels)),
                              excluded_fields, Some(ant_field_labels))
    ELSE fields_for_model(model.fields, model.field_names,
                          Some(exclude_fields), model.field_labels)

\* a faulty variant: a field whose import is already in the set is not given a component
MutContextLoop(items, model_name, use_placeholder) ==
    LET RECURSIVE Go(_, _)
        Go(i, acc) ==
            IF i > Len(items) THEN acc
            ELSE LET field == items[i][2]
                     seen == ~IsNone(get_import(field))
                               /\ Val(get_import(field)) \in acc.extra_imports
                 IN  Go(i + 1,
                        [ components |->
                              IF seen THEN acc.components
                              ELSE Append(acc.components,
                                     get_field_context(items[i][1], field, model_name,
                                                       use_placeholder)),
                          extra_imports |-> acc.extra_imports \cup Range(get_import(field)),
                          sub_imports |-> acc.sub_imports \cup Range(get_sub_imports(field)) ])
    IN  Go(1, [components |-> <<>>, extra_imports |-> {}, sub_imports |-> {}])

\* the loop over model_fields.items() (each pass is bound to its value before
\* the next one reads it)
ContextLoop(items, model_name, use_placeholder) ==
    LET RECURSIVE Go(_, _)
        Go(i, acc) ==
            IF i > Len(items) THEN acc
            ELSE LET f_name == items[i][1]
                     field == items[i][2]
                     field_import == get_import(field)
                     sub_import == get_sub_imports(field)
                 IN  CHOOSE res \in {Go(i + 1, nxt) : nxt \in {
                        [ components |->
                              Append(acc.components,
                                     get_field_context(f_name, field, model_name,
                                                       use_placeholder)),
                          extra_imports |->
                              IF ~IsNone(field_import)
                              THEN acc.extra_imports \cup {Val(field_import)}
                              ELSE acc.extra_imports,
                          sub_imports |->
                              IF ~IsNone(sub_import)
                              THEN acc.sub_imports \cup {Val(sub_import)}
                              ELSE acc.sub_imports ]}} : TRUE
    IN  Go(1, [components |-> <<>>, extra_imports |-> {}, sub_imports |-> {}])

_get_context(v, model, model_name, excluded_fields, use_placeholder) ==
    CHOOSE context \in {ContextLoop(items, model_name, use_placeholder) :
                           items \in {ModelFields(v, model, excluded_fields)}} : TRUE

-----------------------------------------------------------------------------
(* Inputs: form fields, names, models                                      *)

\* A form field as the framework hands it to the command.  Every form field
\* carries the framework's default 'required' error message.
FormField(cls, max_length, choices, label) ==
    [ cls |-> cls, max_length |-> max_length, choices |-> choices, label |-> label,
      initial |-> None, required |-> TRUE, help_text |-> "",
      error_required |-> Some("This field is required.") ]

Offer == <<"O","f","f","e","r">>
Note == <<"N","o","t","e">>
Ghost == <<"G","h","o","s","t">>
first_name == <<"f","i","r","s","t","_","n","a","m","e">>
offer_code == <<"o","f","f","e","r","_","c","o","d","e">>
contact_email == <<"c","o","n","t","a","c","t","_","e","m","a","i","l">>
n_id == <<"i","d">>
n_title == <<"t","i","t","l","e">>
n_body == <<"b","o","d","y">>
n_kind == <<"k","i","n","d">>
n_qty == <<"q","t","y">>
n_client == <<"c","l","i","e","n","t">>
n_path == <<"p","a","t","h">>
n_created_at == <<"c","r","e","a","t","e","d","_","a","t">>

AlphaBeta == << <<"a", <<"A","l","p","h","a">> >>, <<"b", <<"B","e","t","a">> >> >>
Specials == << <<"a", <<"R","&","D">> >>, <<"b", <<"<","b",">">> >>,
               <<"c", <<"\"","'">> >> >>

\* A declared maximum length is a positive number: the framework's system checks,
\* which run before the command's handler, reject any other.
MaxLengths == {None, Some(20)}

ClassifyFields ==
    {FormField(cls, ml, <<>>, "Label") : cls \in FieldClasses, ml \in MaxLengths}

TitleChars == {"a", "<"}
Titles == SeqsUpTo(TitleChars, MaxTitleLen)
ChoiceLists == SeqsUpTo({<<"a", t>> : t \in Titles}, MaxChoices) \cup {AlphaBeta, Specials}
ChoiceClasses == {c \in FieldClasses : IsSubclass(c, "ChoiceField")}

InputFields ==
    {FormField(cls, None, ch, "Label") :
        cls \in {"ChoiceField"}, ch \in ChoiceLists}
    \cup {FormField(cls, None, ch, "Label") : cls \in ChoiceClasses, ch \in {AlphaBeta, Specials}}
    \cup {FormField(cls, ml, <<>>, "Label") :
             cls \in FieldClasses \ ChoiceClasses, ml \in MaxLengths}

\* Field names are identifiers the framework accepts: not empty, not starting
\* with a digit, not ending with an underscore, without a double underscore.
NameChars == {"a", "b", "B", "_", "1"}
ValidFieldName(n) ==
    /\ n # <<>>
    /\ n[1] # "1"
    /\ n[Len(n)] # "_"
    /\ \A i \in 1..(Len(n) - 1) : ~(n[i] = "_" /\ n[i + 1] = "_")
FieldNames ==
    {n \in SeqsUpTo(NameChars, MaxNameLen) : ValidFieldName(n)}
    \cup {first_name, offer_code, contact_email}
ModelNameChars == {"a", "B"}
ModelNames ==
    (SeqsUpTo(ModelNameChars, MaxModelNameLen) \ {<<>>}) \cup {Offer}

\* Model fields in the framework's default order: the automatic primary key has
\* no form field, created_at is not editable.
ModelField(name, editable, ff) == [name |-> name, editable |-> editable, formfield |-> ff]
Pool ==
    << ModelField(n_id, TRUE, None),
       ModelField(n_title, TRUE, Some(FormField("CharField", Some(20), <<>>, "Title"))),
       ModelField(n_body, TRUE, Some(FormField("CharField", None, <<>>, "Body"))),
       ModelField(n_kind, TRUE, Some(FormField("TypedChoiceField", None, AlphaBeta, "Kind"))),
       ModelField(n_qty, TRUE, Some(FormField("IntegerField", None, <<>>, "Qty"))),
       ModelField(n_client, TRUE,
                  Some(FormField("ModelChoiceField", None, << <<"1", <<"A","c","m","e">> >> >>,
                                 "Client"))),
       ModelField(n_path, TRUE,
                  Some(FormField("FilePathField", None, << <<"f", <<"f",".","t","x","t">> >> >>,
                                 "Path"))),
       ModelField(n_created_at, FALSE,
                  Some(FormField("DateField", None, <<>>, "Created at"))) >>

SubPool(S) == LET In(f) == f \in S IN SelectSeq(Pool, In)
FieldLists == {SubPool(S) : S \in {T \in SUBSET Range(Pool) : Cardinality(T) <= MaxFields}}

Model(name, verbose_name, fields, field_labels, field_names) ==
    [ name |-> name, verbose_name |-> verbose_name, fields |-> fields,
      field_labels |-> field_labels, field_names |-> field_names ]

\* Configured label maps and field lists name editable fields of the model.
EditableNames(fields) == {f.name : f \in {g \in Range(fields) : g.editable}}
KeyLists(fields) == DistinctSeqs(EditableNames(fields), MaxKeys) \ {<<>>}
LabelMap(keys) == [i \in 1..Len(keys) |-> <<keys[i], "Custom">>]

NoField == FormField("Field", None, <<>>, "")
NoModel == Model(<<>>, <<>>, <<>>, None, None)
NoJob ==
    [ op |-> "none", field |-> NoField, field_name |-> <<>>, model_name |-> <<>>,
      use_placeholder |-> FALSE, v |-> 0, model |-> NoModel, excluded |-> None ]

ClassifyJobs == {[NoJob EXCEPT !.op = "classify", !.field = f] : f \in ClassifyFields}
InputJobs ==
    {[NoJob EXCEPT !.op = "input", !.field = f, !.field_name = n, !.use_placeholder = u] :
        f \in InputFields, n \in {contact_email}, u \in BOOLEAN}
NameJobs ==
    {[NoJob EXCEPT !.op = "name", !.field_name = n, !.model_name = m] :
        n \in FieldNames, m \in ModelNames}
ContextJobs1 ==
    UNION {
      {[NoJob EXCEPT !.op = "context", !.v = 1, !.model_name = Offer, !.use_placeholder = u,
                     !.model = Model(Offer, <<"o","f","f","e","r">>, fl, labels, None),
                     !.excluded = ex] :
          labels \in {None} \cup {Some(LabelMap(k)) : k \in KeyLists(fl)},
          ex \in {None} \cup {Some(<<f.name>>) : f \in Range(fl)},
          u \in BOOLEAN} : fl \in FieldLists}
ContextJobs2 ==
    UNION {
      {[NoJob EXCEPT !.op = "context", !.v = 2, !.model_name = Offer, !.use_placeholder = u,
                     !.model = Model(Offer, <<"o","f","f","e","r">>, fl, labels, names)] :
          labels \in {None} \cup {Some(LabelMap(<<f.name>>)) : f \in {fl[i] : i \in 1..Len(fl) \cap {1}}},
          names \in {None} \cup {Some(k) : k \in KeyLists(fl)},
          u \in BOOLEAN} : fl \in FieldLists}

-----------------------------------------------------------------------------
(* Calls of the pure methods                                               *)

NoRun == [status |-> "none"]

IdleCommand ==
    /\ variant = 0
    /\ attrs = <<>>
    /\ target = <<>>
    /\ dirs = {}
    /\ files = <<>>
    /\ runs = 0
    /\ prev = <<>>
    /\ last = NoRun
    /\ before = NoRun

InitFn ==
    /\ IdleCommand
    /\ job \in ClassifyJobs \cup InputJobs \cup NameJobs \cup ContextJobs1 \cup ContextJobs2
    /\ out = None

Classify ==
    /\ job.op = "classify" /\ out = None
    /\ out' = Some(_get_field_type(job.field))
    /\ UNCHANGED <<variant, attrs, target, dirs, files, runs, prev, last, before, job>>

RenderInput ==
    /\ job.op = "input" /\ out = None
    /\ out' = Some(_get_input(job.field, job.field_name, job.use_placeholder))
    /\ UNCHANGED <<variant, attrs, target, dirs, files, runs, prev, last, before, job>>

BuildFieldContext ==
    /\ job.op = "name" /\ out = None
    /\ out' = Some(get_field_context(job.field_name, job.field, job.model_name,
                                     job.use_placeholder))
    /\ UNCHANGED <<variant, attrs, target, dirs, files, runs, prev, last, before, job>>

BuildContext ==
    /\ job.op = "context" /\ out = None
    /\ out' = Some(_get_context(job.v, job.model, job.model_name, job.excluded,
                                job.use_placeholder))
    /\ UNCHANGED <<variant, attrs, target, dirs, files, runs, prev, last, before, job>>

NextFn == Classify \/ RenderInput \/ BuildFieldContext \/ BuildContext

SpecFn == InitFn /\ [][NextFn]_vars

-----------------------------------------------------------------------------
(* The model registry and the command line                                 *)

app_name == "content_library"      \* variant 2: Command.app_name
Apps == {"shop", app_name}         \* the applications whose models module imports

Registry ==
    [ n \in {Offer, Note} |->
        IF n = Offer
        THEN [ verbose_name |-> <<"o","f","f","e","r">>,
               fields |-> <<Pool[1], Pool[2], Pool[5]>> ]
        ELSE [ verbose_name |-> <<"r","e","l","e","a","s","e"," ","n","o","t","e">>,
               fields |-> <<Pool[3]>> ] ]

\* The optional class attributes of the registered models: none, or every model
\* with a label map (in another order than its fields) and a field list.
NoAttrs == [n \in DOMAIN Registry |-> [field_labels |-> None, field_names |-> None]]
AllAttrs ==
    [ n \in DOMAIN Registry |->
        LET names == [i \in 1..Len(Registry[n].fields) |->
                         Registry[n].fields[Len(Registry[n].fields) + 1 - i].name]
        IN  [field_labels |-> Some(LabelMap(names)), field_names |-> Some(names)] ]
AttrChoices == {NoAttrs, AllAttrs}

custom_js == <<"x",".","j","s">>
FormFields_js == <<"F","o","r","m","F","i","e","l","d","s",".","j","s">>

\* The command line of a behaviour's invocations, but for --replace-existing,
\* which every invocation chooses: variant 1 names an application and one model,
\* variant 2 a list of models.
Targets(v) ==
    IF v = 1
    THEN {[app_label |-> am[1], models |-> <<am[2]>>, excluded_fields |-> ex, file_name |-> fn,
           use_placeholder |-> u] :
             am \in {<<"shop", Offer>>, <<"shop", Note>>, <<"shop", Ghost>>, <<"nope", Offer>>},
             ex \in {None, Some(<<n_qty>>)},
             fn \in {None, Some(custom_js)},
             u \in BOOLEAN}
    ELSE {[app_label |-> app_name, models |-> ms, excluded_fields |-> None, file_name |-> fn,
           use_placeholder |-> u] :
             ms \in SeqsUpTo({Offer, Note, Ghost}, MaxModels) \ {<<>>},
             fn \in {None, Some(custom_js)},
             u \in BOOLEAN}

-----------------------------------------------------------------------------
(* Command.handle and what it calls                                        *)

\* getattr(import_module(f'{app_label}.models'), model_name, None): the import
\* raises for an unknown application, the lookup gives None for an unknown name
_get_model(app_label, model_name) ==
    IF app_label \notin Apps THEN [raised |-> TRUE, value |-> None]
    ELSE IF model_name \in DOMAIN Registry
         THEN [raised |-> FALSE,
               value |-> Some(Model(model_name, Registry[model_name].verbose_name,
                                    Registry[model_name].fields,
                                    attrs[model_name].field_labels,
                                    attrs[model_name].field_names))]
         ELSE [raised |-> FALSE, value |-> None]

\* The output directory (below the base output path) and the file name.
_get_location(v, file_name, verbose_name, model_name) ==
    [ dir  |-> IF v = 1 THEN Py_title(Py_replace(verbose_name, " ", <<>>))
               ELSE Py_lower(Py_replace(verbose_name, " ", <<"_">>)),
      name |-> IF ~IsNone(file_name) /\ Val(file_name) # <<>> THEN Val(file_name)
               ELSE (IF v = 1 THEN Py_title(model_name) ELSE model_name) \o FormFields_js ]

\* A set in the order a hash ordering r of its elements' universe gives it.
SetOrder(r, S) == LET In(x) == x \in S IN SelectSeq(r, In)

\* The template's output: the components, and the import and sub-import sets
\* in the order iterating them yields.
Render(context, r, sr) ==
    [ components    |-> context.components,
      extra_imports |-> SetOrder(r, context.extra_imports),
      sub_imports   |-> SetOrder(sr, context.sub_imports),
      origin        |-> "generated" ]

\* os.path.splitext
LastDot(n) == IF "." \in Range(n) THEN CHOOSE i \in 1..Len(n) :
                   n[i] = "." /\ \A k \in (i + 1)..Len(n) : n[k] # "." ELSE Len(n) + 1
\* Storage.get_available_name: the name itself when free, else the file root,
\* an underscore, a random suffix and the extension, drawn anew until free.
\* The suffixes are interchangeable: the model draws the first that is free.
SuffixTokens == <<"k3Xq9Zb", "Pq7LmN2", "aB4cD6e", "Zz91YxW", "Qw3Er5T", "mN8bV7c",
                  "Lk2Jh4G", "Ty6Ui8O", "Df0Gh1J", "Xc5Vb3N", "Rt9Yu2I", "Gh7Jk6L">>
AltName(name, sfx) ==
    SubSeq(name, 1, LastDot(name) - 1) \o <<"_", sfx>> \o SubSeq(name, LastDot(name), Len(name))
Path(dir, name) == [dir |-> dir, name |-> name]

\* a faulty variant: the storage writes over an existing file of the name
Mut_render_js(fs_files, dir, file_name, context, r, sr) ==
    LET content == Render(context, r, sr)
        p == Path(dir, file_name)
    IN  [ output |-> file_name,
          content |-> content,
          files |-> [q \in DOMAIN fs_files \cup {p} |-> IF q = p THEN content ELSE fs_files[q]] ]

FreeSuffixes(fs_files, dir, file_name) ==
    {i \in 1..(MaxRuns * MaxModels) :
        Path(dir, AltName(file_name, SuffixTokens[i])) \notin DOMAIN fs_files}
get_available_name(fs_files, dir, file_name) ==
    IF Path(dir, file_name) \notin DOMAIN fs_files THEN file_name
    ELSE LET free == FreeSuffixes(fs_files, dir, file_name)
         IN  AltName(file_name, SuffixTokens[CHOOSE i \in free : \A k \in free : i <= k])

\* render the template and fs.save(file_name, ContentFile(content)): the storage
\* never writes over a file, it saves under the first available name
_render_js(fs_files, dir, file_name, context, r, sr) ==
    LET content == Render(context, r, sr)
        name == get_available_name(fs_files, dir, file_name)
        p == Path(dir, name)
    IN  [ output |-> name,
          content |-> content,
          files |-> [q \in DOMAIN fs_files \cup {p} |-> IF q = p THEN content ELSE fs_files[q]] ]

\* The part of the body after the model is resolved: the directory, the
\* existing file, the save and the report.
WriteComponent(st, opts, loc, context, r, sr) ==
    LET p == Path(loc.dir, loc.name)
        exists == p \in DOMAIN st.files
        files1 == IF exists /\ opts.replace_existing
                  THEN [q \in DOMAIN st.files \ {p} |-> st.files[q]]
                  ELSE st.files
        stdout1 == IF exists /\ ~opts.replace_existing
                   THEN Append(st.stdout, [style |-> "WARNING", file |-> loc.name])
                   ELSE st.stdout
    IN  CHOOSE res \in
            {[ status  |-> "ok",
               error   |-> "",
               dirs    |-> st.dirs \cup {loc.dir},
               files   |-> saved.files,
               stdout  |-> Append(stdout1, [style |-> "SUCCESS", file |-> saved.output]),
               outputs |-> Append(st.outputs,
                                  [ target |-> p, saved |-> Path(loc.dir, saved.output),
                                    content |-> saved.content ]) ] :
                saved \in {_render_js(files1, loc.dir, loc.name, context, r, sr)}} : TRUE

\* One model of the command line: the body of handle (variant 1) or of its loop
\* (variant 2), from the state st of the invocation so far.
HandleModel(v, st, opts, model_name, r, sr) ==
    LET got == _get_model(opts.app_label, model_name)
    IN  IF got.raised
        THEN [st EXCEPT !.status = "error", !.error = "ModuleNotFoundError"]
        ELSE IF IsNone(got.value)
        THEN [st EXCEPT !.status = "error", !.error = "AttributeError"]
        ELSE CHOOSE res \in
                 {WriteComponent(st, opts, loc, context, r, sr) :
                     loc \in {_get_location(v, opts.file_name, Val(got.value).verbose_name,
                                            model_name)},
                     context \in {_get_context(v, Val(got.value), model_name,
                                               opts.excluded_fields, opts.use_placeholder)}} :
                 TRUE

\* (each step is bound to its value before the next one reads it)
RECURSIVE HandleFrom(_, _, _, _, _, _)
HandleFrom(v, st, opts, i, r, sr) ==
    IF i > Len(opts.models) \/ st.status = "error" THEN st
    ELSE CHOOSE res \in {HandleFrom(v, nxt, opts, i + 1, r, sr) :
                             nxt \in {HandleModel(v, st, opts, opts.models[i], r, sr)}} :
             TRUE

\* Command.handle: variant 1 handles its one model, variant 2 each model of its
\* list in turn; an exception ends the invocation where it is raised.
handle(v, fs_dirs, fs_files, opts, r, sr) ==
    HandleFrom(v, [ status |-> "ok", error |-> "", dirs |-> fs_dirs, files |-> fs_files,
                    stdout |-> <<>>, outputs |-> <<>> ],
               opts, 1, r, sr)

-----------------------------------------------------------------------------
(* Invocations of the command                                              *)

EmptyFiles == [q \in {} |-> None]
StaleContent ==
    [components |-> <<>>, extra_imports |-> <<>>, sub_imports |-> <<>>, origin |-> "edited"]

\* The contexts an invocation can build: the hash ordering of one process ranges
\* over the imports of the models the command line names.
Contexts(v, opts) ==
    {_get_context(v, Val(_get_model(opts.app_label, m).value), m, opts.excluded_fields,
                  opts.use_placeholder) :
        m \in {n \in Range(opts.models) : opts.app_label \in Apps /\ n \in DOMAIN Registry}}

Options(replace_existing) ==
    [ app_label |-> target.app_label, models |-> target.models,
      excluded_fields |-> target.excluded_fields, file_name |-> target.file_name,
      replace_existing |-> replace_existing, use_placeholder |-> target.use_placeholder ]

Run(v) ==
    /\ variant = v
    /\ runs < MaxRuns
    /\ \E replace_existing \in BOOLEAN :
       \E opts \in {Options(replace_existing)} :
       \E cs \in {Contexts(v, opts)} :
       \E U \in {UNION {c.extra_imports : c \in cs}}, SU \in {UNION {c.sub_imports : c \in cs}} :
       \E r \in Orderings(U), sr \in Orderings(SU) :
       \E res \in {handle(v, dirs, files, opts, r, sr)} :
           /\ dirs' = res.dirs
           /\ files' = res.files
           /\ prev' = [dirs |-> dirs, files |-> files]
           /\ before' = IF last.status = "none" THEN NoRun
                        ELSE [status |-> last.status, opts |-> last.opts]
           /\ last' = [ status |-> res.status, error |-> res.error, opts |-> opts,
                        stdout |-> res.stdout, outputs |-> res.outputs ]
    /\ runs' = runs + 1
    /\ UNCHANGED <<variant, attrs, target, job, out>>

\* variant 1: python manage.py createmodelcomponent <app_label> -m <Model> ...
RunVariant1 == Run(1)
\* variant 2: python manage.py createmodelcomponent -m <Model> [<Model> ...] ...
RunVariant2 == Run(2)

Init ==
    /\ variant \in {1, 2}
    /\ attrs \in AttrChoices
    /\ target \in Targets(variant)
    /\ \E stale \in {{},
            {Path(_get_location(variant, target.file_name, Registry[m].verbose_name, m).dir,
                  _get_location(variant, target.file_name, Registry[m].verbose_name, m).name) :
                m \in Range(target.models) \cap DOMAIN Registry}} :
         /\ files = [q \in stale |-> StaleContent]
         /\ dirs = {q.dir : q \in stale}
    /\ runs = 0
    /\ prev = [dirs |-> dirs, files |-> files]
    /\ last = NoRun
    /\ before = NoRun
    /\ job = NoJob
    /\ out = None

Next == RunVariant1 \/ RunVariant2

Spec == Init /\ [][Next]_vars

-----------------------------------------------------------------------------
(* Properties of the invocations, checked under Spec                       *)

Ran == last.status # "none"
Warned(name) == [style |-> "WARNING", file |-> name] \in Range(last.stdout)
AllResolve == target.app_label \in Apps /\ Range(target.models) \subseteq DOMAIN Registry

\* C1 as stated: an invocation without --replace-existing whose target file
\* exists when it starts warns, does not fail, and leaves the newly generated
\* content in the file of the target name.
C1_Original ==
    (Ran /\ ~last.opts.replace_existing) =>
        /\ AllResolve => last.status = "ok"
        /\ \A i \in 1..Len(last.outputs) :
              LET o == last.outputs[i]
              IN  o.target \in DOMAIN prev.files =>
                      /\ Warned(o.target.name)
                      /\ files[o.target] = o.content

\* C1 amended: an invocation without --replace-existing whose target file exists
\* when it starts warns and does not fail, leaves that file untouched, and
\* writes the newly generated content to a new file of another name in the
\* same directory.
C1_WarnsAndWritesBeside ==
    (Ran /\ ~last.opts.replace_existing) =>
        /\ AllResolve => (last.status = "ok" /\ Len(last.outputs) = Len(target.models))
        /\ \A i \in 1..Len(last.outputs) :
              LET o == last.outputs[i]
              IN  o.target \in DOMAIN prev.files =>
                      /\ Warned(o.target.name)
                      /\ files[o.target] = prev.files[o.target]
                      /\ o.saved # o.target
                      /\ o.saved.dir = o.target.dir
                      /\ o.saved \notin DOMAIN prev.files
                      /\ files[o.saved] = o.content

\* C1 witness: a second invocation without --replace-existing found the file of
\* the first, generated other content than that file holds, and succeeded.
C1_Witness ==
    /\ runs = 2
    /\ last.status = "ok"
    /\ ~last.opts.replace_existing
    /\ \E i \in 1..Len(last.outputs) :
          /\ last.outputs[i].target \in DOMAIN prev.files
          /\ prev.files[last.outputs[i].target].origin = "generated"
          /\ prev.files[last.outputs[i].target] # last.outputs[i].content

\* C2: an invocation that fails on a model name the registry cannot resolve
\* leaves the filesystem as it found it: no file written, no directory created.
C2_FailureLeavesNoTrace ==
    (Ran /\ last.status = "error") => (files = prev.files /\ dirs = prev.dirs)

-----------------------------------------------------------------------------
(* Properties of the pure methods, checked under SpecFn                    *)

Called(op) == job.op = op /\ out # None

\* C5: the classifier returns ("textarea", "TextArea") for a free-text field with
\* no declared maximum length, whatever the table holds; otherwise the table's
\* pair for the field's exact class; otherwise, the class being absent from the
\* table, ("text", "Input").  It returns a pair for every field.
C5_ClassifierTotal ==
    Called("classify") =>
        LET f == job.field
            free_text == IsSubclass(f.cls, "CharField")
        IN  /\ Val(out) \in {<<"textarea", "TextArea">>, <<"text", "Input">>}
                               \cup {FIELD_MAP[k] : k \in DOMAIN FIELD_MAP}
            /\ (free_text /\ IsNone(f.max_length)) => Val(out) = <<"textarea", "TextArea">>
            /\ (~(free_text /\ IsNone(f.max_length)) /\ f.cls \in DOMAIN FIELD_MAP)
                   => Val(out) = FIELD_MAP[f.cls]
            /\ (~(free_text /\ IsNone(f.max_length)) /\ f.cls \notin DOMAIN FIELD_MAP)
                   => Val(out) = <<"text", "Input">>

\* C5 witness: a free-text field of a class outside the table, with no maximum
\* length, has been classified as a text area.
C5_Witness ==
    /\ Called("classify")
    /\ job.field.cls = "EmailField"
    /\ IsNone(job.field.max_length)
    /\ Val(out) = <<"textarea", "TextArea">>

\* The lines of a markup: its tokens between the line breaks.
RECURSIVE SplitLines(_, _)
SplitLines(m, line) ==
    IF m = <<>> THEN <<line>>
    ELSE IF Head(m) = "\n" THEN <<line>> \o SplitLines(Tail(m), <<>>)
    ELSE SplitLines(Tail(m), Append(line, Head(m)))

\* The text an HTML reader sees in an escaped text.
StartsWith(s, p) == Len(p) <= Len(s) /\ SubSeq(s, 1, Len(p)) = p
Entities ==
    { <<"&", <<"&","a","m","p",";">> >>, <<"<", <<"&","l","t",";">> >>,
      <<">", <<"&","g","t",";">> >>, <<"\"", <<"&","q","u","o","t",";">> >>,
      <<"'", <<"&","#","x","2","7",";">> >> }
RECURSIVE Unescape(_)
Unescape(s) ==
    IF s = <<>> THEN <<>>
    ELSE IF \E e \in Entities : StartsWith(s, e[2])
         THEN LET e == CHOOSE e \in Entities : StartsWith(s, e[2])
              IN  <<e[1]>> \o Unescape(SubSeq(s, Len(e[2]) + 1, Len(s)))
         ELSE <<Head(s)>> \o Unescape(Tail(s))

OptionOpen == "        <Option value=\""
IsOptionLine(l) == l # <<>> /\ l[1] = OptionOpen
\* line l is the option element of the choice (value, title): the value as it is
\* and the title escaped (no markup character left, reading back as the title)
OptionOf(l, value, title) ==
    /\ Len(l) >= 4
    /\ l[1] = OptionOpen /\ l[2] = value /\ l[3] = "\">" /\ l[Len(l)] = "</Option>"
    /\ LET shown == SubSeq(l, 4, Len(l) - 1)
       IN  /\ Range(shown) \cap {"<", ">", "\"", "'"} = {}
           /\ Unescape(shown) = title

\* C6: the markup of a choice-type field is an opening tag of the widget, one
\* option element per (value, title) of the field's choices in their order, each
\* with the value and the HTML-escaped title, and a closing tag of the same
\* widget; the markup of any other field is one self-closing tag, no option.
C6_MarkupShape ==
    Called("input") =>
        LET f == job.field
            widget == _get_field_type(f)[2]
            lines == SplitLines(Val(out), <<>>)
            opts == SelectSeq(lines, IsOptionLine)
            n == Len(f.choices)
        IN  IF IsSubclass(f.cls, "ChoiceField")
            THEN /\ Len(lines) >= 3
                 /\ lines[1][1] = "<" /\ lines[1][2] = widget
                 /\ lines[1][Len(lines[1])] = ">"
                 /\ lines[Len(lines)] = <<"      </", widget, ">">>
                 /\ Len(opts) = n
                 /\ \A i \in 1..n : OptionOf(opts[i], f.choices[i][1], f.choices[i][2])
                 /\ n > 0 => \A i \in 1..n : lines[i + 1] = opts[i]
                 /\ Len(lines) = 2 + (IF n = 0 THEN 1 ELSE n)
            ELSE /\ Len(lines) = 1
                 /\ opts = <<>>
                 /\ lines[1][1] = "<" /\ lines[1][2] = widget
                 /\ lines[1][Len(lines[1])] = " />"

\* C6 witness: the choices [("a", "R&D"), ("b", "<b>"), ("c", "\"'")] have been
\* rendered as three option elements.
C6_Witness ==
    /\ Called("input")
    /\ job.field.choices = Specials
    /\ Len(SelectSeq(SplitLines(Val(out), <<>>), IsOptionLine)) = 3

\* The prefix rule on a converted name p: the model name goes in front unless it
\* occurs in p, letters compared without regard to case.
Occurs(m, p) ==
    \E i \in 0..Len(p) :
        /\ i + Len(m) <= Len(p)
        /\ \A k \in 1..Len(m) : ToLower(p[i + k]) = ToLower(m[k])
Prefixed(m, p) == IF Occurs(m, p) THEN p ELSE m \o p

Capitalize(w) == [i \in 1..Len(w) |-> IF i = 1 THEN ToUpper(w[i]) ELSE ToLower(w[i])]
\* PascalCase by underscore-separated words: each word capitalized, words joined
RECURSIVE PascalOfWords(_, _)
PascalOfWords(n, word) ==
    IF n = <<>> THEN Capitalize(word)
    ELSE IF Head(n) = "_" THEN Capitalize(word) \o PascalOfWords(Tail(n), <<>>)
    ELSE PascalOfWords(Tail(n), Append(word, Head(n)))

\* The conversion with a word starting after every character that is not a
\* letter: a letter is upper-cased when first or after a non-letter and
\* lower-cased otherwise, then the underscores are dropped.
NotUnderscore(c) == c # "_"
PascalOfLetterRuns(n) ==
    SelectSeq([i \in 1..Len(n) |->
                  IF i = 1 \/ ~IsCased(n[i - 1]) THEN ToUpper(n[i]) ELSE ToLower(n[i])],
              NotUnderscore)

\* C8 as stated: the component name is the PascalCase of the underscore-separated
\* words of the field name, prefixed with the model name unless the model name
\* occurs in it, case-insensitively.
C8_Original ==
    Called("name") =>
        Val(out).name = Prefixed(job.model_name, PascalOfWords(job.field_name, <<>>))

\* C8 amended: the component name is the field name without its underscores,
\* each letter upper-cased when it is first or follows a character that is not a
\* letter (an underscore or a digit) and lower-cased otherwise, prefixed with
\* the model name unless the model name occurs in it, case-insensitively;
\* first_name on Offer gives OfferFirstName and offer_code on Offer OfferCode.
C8_ComponentName ==
    Called("name") =>
        /\ Val(out).name = Prefixed(job.model_name, PascalOfLetterRuns(job.field_name))
        /\ (job.model_name = Offer /\ job.field_name = first_name)
              => Val(out).name = <<"O","f","f","e","r","F","i","r","s","t","N","a","m","e">>
        /\ (job.model_name = Offer /\ job.field_name = offer_code)
              => Val(out).name = <<"O","f","f","e","r","C","o","d","e">>

\* C8 witness: a field name holding the model name in another case got no prefix.
C8_Witness ==
    /\ Called("name")
    /\ job.model_name = <<"a","B">>
    /\ job.field_name = <<"a","b","1">>
    /\ Val(out).name = <<"A","b","1">>

-----------------------------------------------------------------------------
(* Properties of the generation context, checked under SpecFn              *)

ComponentNames(ctx) == [i \in 1..Len(ctx.components) |-> ctx.components[i].field_name]

\* the form fields of a model: the editable fields that have a form field
FormFieldNames(model) ==
    LET Has(f) == f.editable /\ ~IsNone(f.formfield)
        fs == SelectSeq(model.fields, Has)
    IN  [i \in 1..Len(fs) |-> fs[i].name]

ExcludeList(j) == IF j.v = 1 THEN (IF IsNone(j.excluded) THEN <<>> ELSE Val(j.excluded))
                  ELSE exclude_fields

\* C4 (its particular case): for a model that configures neither an allow-list
\* nor a label map, every form field not in the exclude-list yields exactly one
\* component, and no other field does.
C4_AllFieldsByDefault ==
    (Called("context") /\ IsNone(job.model.field_labels) /\ IsNone(job.model.field_names)) =>
        LET NotExcluded(n) == n \notin Range(ExcludeList(job))
        IN  ComponentNames(Val(out)) = SelectSeq(FormFieldNames(job.model), NotExcluded)

\* C7: the components are the resolved fields, one each and in their order: the
\* order of the configured field list when one is configured, the framework's
\* default order otherwise.
C7_ComponentOrder ==
    Called("context") =>
        LET resolved == ModelFields(job.v, job.model, job.excluded)
            comps == Val(out).components
            names == ComponentNames(Val(out))
            configured == IF job.v = 1
                          THEN (IF IsNone(job.model.field_labels) THEN <<>>
                                ELSE Keys(Val(job.model.field_labels)))
                          ELSE (IF IsNone(job.model.field_names) THEN <<>>
                                ELSE Val(job.model.field_names))
            reference == IF configured # <<>> THEN configured
                         ELSE [i \in 1..Len(job.model.fields) |-> job.model.fields[i].name]
            Rendered(n) == n \in Range(names)
        IN  /\ Len(comps) = Len(resolved)
            /\ \A i \in 1..Len(comps) :
                  comps[i].field_name = resolved[i][1] /\ comps[i].field = resolved[i][2]
            /\ names = SelectSeq(reference, Rendered)

\* C7 witness: a configured field list in another order than the model's has
\* been rendered in the list's order.
C7_Witness ==
    /\ Called("context")
    /\ job.v = 2
    /\ job.model.field_names = Some(<<n_qty, n_title>>)
    /\ job.model.field_labels = None
    /\ [i \in 1..Len(job.model.fields) |-> job.model.fields[i].name] = <<n_title, n_qty>>
    /\ ComponentNames(Val(out)) = <<n_qty, n_title>>

HasOption(markup) == OptionOpen \in Range(markup)

\* C9: whenever a component's markup holds an Option element, the widget of the
\* markup is Select and the sub-imports hold ("Option", "Select").
C9_OptionMeansSelect ==
    Called("context") =>
        \A i \in 1..Len(Val(out).components) :
            HasOption(Val(out).components[i].input) =>
                /\ Val(out).components[i].input[2] = "Select"
                /\ <<"Option", "Select">> \in Val(out).sub_imports

\* C10: the import set holds the import of the parent widget of every sub-import.
C10_ParentImported ==
    Called("context") =>
        \A sub \in Val(out).sub_imports :
            FIELD_IMPORT_MAP[sub[2]] \in Val(out).extra_imports

=============================================================================
